---- MODULE Spec2Model ----
(***************************************************************************)
(* Checkpoint Lifecycle Manager (finetune/training.py, TrainerSpecCallback) *)
(* and Partition Assigner (finetune/manifests.py, build_manifests).         *)
(*                                                                          *)
(* token_accuracy is a float in [0,1]; it is modelled in thousandths, so    *)
(* the hard-coded policy constants 0.05 and 0.005 are 50 and 5.  A          *)
(* train_ratio is modelled in thousandths as well.                          *)
(***************************************************************************)
EXTENDS Integers, Sequences, FiniteSets, TLC

(* ------------------------------ bounds -------------------------------- *)

\* Largest global_step the trainer reaches.
MaxStep == 4

\* keep_last (max_saved_checkpoints) is drawn from 0..MaxKeep.
MaxKeep == 2

\* patience_evals is drawn from 1..MaxPatience in SpecPatience.
MaxPatience == 3

\* The recordings directory holds some of the first MaxNames recording names.
MaxNames == 4

\* Restarts of the training job in one behaviour.
MaxResumes == 1

(* --------------------------- program constants ------------------------ *)

\* Optional[...] = None
None == -1

\* `drop > 0.05`, in thousandths
REGRESSION_DROP == 50

\* `improvement >= 0.005`, in thousandths
MIN_IMPROVEMENT == 5

\* TrainingHyperparams.patience_evals default
patience_evals_default == 3

\* TrainingHyperparams.train_ratio default 0.9, in thousandths
train_ratio_default == 900

\* token_accuracy values the evaluation reports (thousandths).  They hold a
\* first eval below and at the minimum improvement (4, 5), drops of exactly
\* 50 and of 51 (55 -> 5, 56 -> 5, 55 -> 4) and improvements of 4 and of 5
\* over a best-ever value (56 -> 60, 55 -> 60).
TokenAccs == {4, 5, 55, 56, 60}

\* train_ratio values (thousandths): 0.1, 0.5 and the default 0.9.
TrainRatios == {100, 500, 900}

\* The keys of a trainer log event that on_log reads.
LogKeys == {"loss", "learning_rate"}

\* Recording file names, in the order sorted(recordings_dir.glob("*.json"))
\* lists them ("Take09.json" and "take09.json" differ in case only).
RecordingNames ==
    <<"Take09.json", "take05.json", "take09.json", "take11.json",
      "take12.json", "take18.json">>

\* int(blake2s(stem.lower(), digest_size=16).hexdigest(), 16) / 2**128 of
\* each name above, in thousandths (rounded down).  Names that differ in case
\* only share a digest; the other digests differ within these three digits,
\* so the order of the thousandths is the order of the hexdigests.
DigestTable == <<955, 679, 955, 97, 975, 24>>

(* ------------------------------- state -------------------------------- *)

VARIABLES
    \* TrainerSpecCallback fields
    best_token_accuracy,
    prev_token_accuracy,
    stall_counter,
    pending_best_step,
    saved_checkpoints,
    keep_last,
    best_checkpoint_path,
    patience_evals,
    \* filesystem under checkpoints_base
    latest_symlink,
    best_symlink,
    checkpoint_dirs,
    metrics_files,
    \* the external trainer: TrainerState.global_step, TrainerControl, and
    \* where the training loop stands
    global_step,
    should_save,
    should_training_stop,
    pc,
    \* the last handler call and its arguments, and what prune passes deleted
    \* and on_save promoted so far (history)
    event,
    pruned,
    promoted,
    \* how many times the job has been started again (history)
    resumes,
    \* the call of train_eventcode_model: what it found on the volumes and
    \* the error it raised, if any
    invocation,
    \* recordings_dir: the names with a .json/.webm pair
    recordings,
    \* manifest_dir: split_map.json, train.jsonl, eval.jsonl,
    \* manifest.meta.json
    split_map_json,
    train_jsonl,
    eval_jsonl,
    manifest_meta,
    \* config.hyperparams.train_ratio
    train_ratio,
    \* the names the last build_manifests pass assigned (its
    \* pending_assignments)
    cohort,
    \* the recordings whose .json file json.load cannot parse
    unparseable,
    \* the build_manifests call in progress: where it stands, the split map
    \* it loaded and what it computed to write
    build_pass,
    \* tokens_dir: the cached feature files, each under the directory of a
    \* split and named by the stem of its recording
    feature_caches

manager_vars == <<best_token_accuracy, prev_token_accuracy, stall_counter,
          pending_best_step, saved_checkpoints, keep_last,
          best_checkpoint_path, patience_evals, latest_symlink, best_symlink,
          checkpoint_dirs, metrics_files, global_step, should_save,
          should_training_stop, pc, event, pruned, promoted, resumes,
          invocation>>

manifest_vars == <<recordings, split_map_json, train_jsonl, eval_jsonl,
                   manifest_meta, train_ratio, cohort, unparseable,
                   build_pass>>

vars == <<manager_vars, manifest_vars, feature_caches>>

(* ------------------------------ paths --------------------------------- *)

\* No path: an unset Optional[Path], an absent symlink.
NoPath == [step |-> None, padded |-> FALSE]

\* Path(args.output_dir) / f"checkpoint-{state.global_step}"
CheckpointDir(step) == [step |-> step, padded |-> FALSE]

\* checkpoints_base / f"checkpoint-{int(trainer.state.global_step):06d}"
FinalCheckpointDir(step) == [step |-> step, padded |-> TRUE]

\* Path.exists() of a symlink follows it: false when absent or dangling.
LinkExists(link, dirs) == link # NoPath /\ link \in dirs

Range(s) == {s[i] : i \in 1..Len(s)}

\* deque.remove(x): drops the first occurrence of x.
RemoveFirst(s, x) ==
    LET idx == {i \in 1..Len(s) : s[i] = x}
        first == CHOOSE i \in idx : \A j \in idx : i <= j
    IN  IF idx = {} THEN s
        ELSE SubSeq(s, 1, first - 1) \o SubSeq(s, first + 1, Len(s))

(* ------------------------- checkpoint hygiene ------------------------- *)

\* _prune_checkpoints, on the deque, the protected path and keep_last:
\* the deque it leaves and the directories it removed.
RECURSIVE prune_checkpoints(_, _, _, _)
prune_checkpoints(saved, best_path, keep, removed) ==
    IF Len(saved) > keep
    THEN LET oldest == Head(saved)
             rest == Tail(saved)
         IN  IF best_path # NoPath /\ oldest = best_path
             THEN [saved |-> Append(rest, oldest), removed |-> removed]
             ELSE prune_checkpoints(rest, best_path, keep, removed \cup {oldest})
    ELSE [saved |-> saved, removed |-> removed]

\* _register_checkpoint up to the prune pass: the deque with the directory
\* moved (or added) to its newest end.
register_checkpoint(saved, dir) ==
    Append(IF dir \in Range(saved) THEN RemoveFirst(saved, dir) ELSE saved, dir)

(* --------------------------- evaluation policy ------------------------ *)

\* Mutant of IsRegression: the threshold taken twice.
IsRegression_double(prev, token_acc) ==
    prev # None /\ prev - token_acc > 2 * REGRESSION_DROP

\* Mutant of IsRegression: `drop >= 0.05`.
IsRegression_ge(prev, token_acc) ==
    prev # None /\ prev - token_acc >= REGRESSION_DROP

\* prev_token_accuracy is not None and prev_token_accuracy - token_acc > 0.05
IsRegression(prev, token_acc) ==
    prev # None /\ prev - token_acc > REGRESSION_DROP

\* Mutant of IsImprovement: the size of the change, whatever its sign.
IsImprovement_abs(best, token_acc) ==
    \/ token_acc - best >= MIN_IMPROVEMENT
    \/ best - token_acc >= MIN_IMPROVEMENT

\* Mutant of IsImprovement: `improvement > 0.005`.
IsImprovement_gt(best, token_acc) ==
    token_acc - best > MIN_IMPROVEMENT

\* token_acc - best_token_accuracy >= 0.005
IsImprovement(best, token_acc) ==
    token_acc - best >= MIN_IMPROVEMENT

\* Mutant of PatienceExhausted: `stall_counter > patience_evals`.
PatienceExhausted_gt(stall, patience) == stall > patience

\* stall_counter >= patience_evals
PatienceExhausted(stall, patience) == stall >= patience

\* Mutant of IsPendingBest: any pending marker promotes the saved step.
IsPendingBest_any(pending, step) == pending # None

\* A pending step that was never promoted would stay eligible at any later save.
IsPendingBest_stale(pending, step) == pending # None /\ step >= pending

\* pending_best_step is not None and int(state.global_step) == pending_best_step
IsPendingBest(pending, step) == pending # None /\ step = pending

\* _write_metrics_file: eval-step-<step>.json is written anew.
write_metrics_file(files, step, token_acc) ==
    {f \in files : f.step # step} \cup {[step |-> step, token_accuracy |-> token_acc]}

(* ----------------------------- entry point ---------------------------- *)

\* train_eventcode_model has not been called.
NotInvoked == [at |-> "not_invoked"]

NoError == "none"

WandbError == "RuntimeError: wandb unavailable"

ManifestsMissing == "FileNotFoundError: Manifests missing; run prepare_dataset first."

TokenizerMissing == "FileNotFoundError: Tokenizer missing; run prepare_dataset first."

\* The checks without the one for the tokenizer directory.
precondition_error_manifests_only(wandb_available, train_manifest, eval_manifest, tokenizer_base) ==
    IF ~wandb_available THEN WandbError
    ELSE IF ~train_manifest \/ ~eval_manifest THEN ManifestsMissing
    ELSE NoError

\* The checks that open train_eventcode_model, in the order of the code:
\* ensure_wandb_available (wandb importable and WANDB_API_KEY set), then the
\* two manifests, then the tokenizer directory.  The first that fails raises.
precondition_error(wandb_available, train_manifest, eval_manifest, tokenizer_base) ==
    IF ~wandb_available THEN WandbError
    ELSE IF ~train_manifest \/ ~eval_manifest THEN ManifestsMissing
    ELSE IF ~tokenizer_base THEN TokenizerMissing
    ELSE NoError

\* train_eventcode_model up to trainer.train(): the arguments say what exists
\* when it is called.  An error leaves the function; otherwise the callback
\* is constructed and the training loop starts.
train_eventcode_model(wandb_available, train_manifest, eval_manifest, tokenizer_base) ==
    /\ invocation = NotInvoked
    /\ LET error == precondition_error(wandb_available, train_manifest,
                                       eval_manifest, tokenizer_base)
       IN  invocation' = [at |-> IF error = NoError THEN "training"
                                 ELSE "raised",
                          wandb_available |-> wandb_available,
                          train_manifest |-> train_manifest,
                          eval_manifest |-> eval_manifest,
                          tokenizer_base |-> tokenizer_base,
                          error |-> error]
    /\ event' = [handler |-> "train_eventcode_model", step |-> 0,
                 token_acc |-> None, dir |-> NoPath]
    /\ UNCHANGED <<best_token_accuracy, prev_token_accuracy, stall_counter,
                   pending_best_step, saved_checkpoints, keep_last,
                   best_checkpoint_path, patience_evals, latest_symlink,
                   best_symlink, checkpoint_dirs, metrics_files, global_step,
                   should_save, should_training_stop, pc, pruned, promoted>>
    /\ UNCHANGED <<resumes, manifest_vars, feature_caches>>

(* ------------------------------ handlers ------------------------------ *)

Running == pc \in {"idle", "step_end", "evaluated", "saved"}

\* The training loop finishes one more optimizer step.  A save the callback
\* asked for is carried out before the next step, and a requested stop ends
\* the loop.
TrainStep ==
    /\ Running
    /\ ~should_save
    /\ ~should_training_stop
    /\ global_step < MaxStep
    /\ global_step' = global_step + 1
    /\ pc' = "step_end"
    /\ event' = [handler |-> "step", step |-> global_step + 1,
                 token_acc |-> None, dir |-> NoPath]
    /\ UNCHANGED <<best_token_accuracy, prev_token_accuracy, stall_counter,
                   pending_best_step, saved_checkpoints, keep_last,
                   best_checkpoint_path, patience_evals, latest_symlink,
                   best_symlink, checkpoint_dirs, metrics_files, should_save,
                   should_training_stop, pruned, promoted>>
    /\ UNCHANGED <<resumes, invocation, manifest_vars, feature_caches>>

\* Mutant of on_evaluate: an improvement points best at the step's
\* checkpoint directory at once, without waiting for the save.
on_evaluate_links(token_acc) ==
    /\ pc = "step_end"
    /\ metrics_files' = write_metrics_file(metrics_files, global_step, token_acc)
    /\ event' = [handler |-> "on_evaluate", step |-> global_step,
                 token_acc |-> token_acc, dir |-> NoPath]
    /\ IF token_acc = None
       THEN /\ pc' = "evaluated"
            /\ UNCHANGED <<best_token_accuracy, prev_token_accuracy,
                           stall_counter, pending_best_step, should_save,
                           should_training_stop, best_symlink>>
       ELSE IF IsRegression(prev_token_accuracy, token_acc)
       THEN /\ pc' = "aborted"
            /\ UNCHANGED <<best_token_accuracy, prev_token_accuracy,
                           stall_counter, pending_best_step, should_save,
                           should_training_stop, best_symlink>>
       ELSE IF IsImprovement(best_token_accuracy, token_acc)
       THEN /\ pc' = "evaluated"
            /\ best_token_accuracy' = token_acc
            /\ stall_counter' = 0
            /\ should_save' = TRUE
            /\ pending_best_step' = global_step
            /\ prev_token_accuracy' = token_acc
            /\ best_symlink' = CheckpointDir(global_step)
            /\ UNCHANGED should_training_stop
       ELSE /\ pc' = "evaluated"
            /\ stall_counter' = stall_counter + 1
            /\ should_training_stop' =
                   (should_training_stop
                      \/ PatienceExhausted(stall_counter + 1, patience_evals))
            /\ prev_token_accuracy' = token_acc
            /\ UNCHANGED <<best_token_accuracy, pending_best_step, should_save,
                           best_symlink>>
    /\ UNCHANGED <<saved_checkpoints, keep_last, best_checkpoint_path,
                   patience_evals, latest_symlink,
                   checkpoint_dirs, global_step, pruned, promoted>>
    /\ UNCHANGED <<resumes, invocation, manifest_vars, feature_caches>>

\* Mutant of on_evaluate: an eval without token_accuracy counts as a stalled
\* eval.
on_evaluate_counts_missing(token_acc) ==
    /\ pc = "step_end"
    /\ metrics_files' = write_metrics_file(metrics_files, global_step, token_acc)
    /\ event' = [handler |-> "on_evaluate", step |-> global_step,
                 token_acc |-> token_acc, dir |-> NoPath]
    /\ IF token_acc # None /\ IsRegression(prev_token_accuracy, token_acc)
       THEN /\ pc' = "aborted"
            /\ UNCHANGED <<best_token_accuracy, prev_token_accuracy,
                           stall_counter, pending_best_step, should_save,
                           should_training_stop>>
       ELSE IF token_acc # None /\ IsImprovement(best_token_accuracy, token_acc)
       THEN /\ pc' = "evaluated"
            /\ best_token_accuracy' = token_acc
            /\ stall_counter' = 0
            /\ should_save' = TRUE
            /\ pending_best_step' = global_step
            /\ prev_token_accuracy' = token_acc
            /\ UNCHANGED should_training_stop
       ELSE /\ pc' = "evaluated"
            /\ stall_counter' = stall_counter + 1
            /\ should_training_stop' =
                   (should_training_stop
                      \/ PatienceExhausted(stall_counter + 1, patience_evals))
            /\ prev_token_accuracy' =
                   IF token_acc = None THEN prev_token_accuracy ELSE token_acc
            /\ UNCHANGED <<best_token_accuracy, pending_best_step, should_save>>
    /\ UNCHANGED <<saved_checkpoints, keep_last, best_checkpoint_path,
                   patience_evals, latest_symlink, best_symlink,
                   checkpoint_dirs, global_step, pruned, promoted>>
    /\ UNCHANGED <<resumes, invocation, manifest_vars, feature_caches>>

\* on_evaluate with a non-empty metrics_dict whose token_accuracy is
\* token_acc (None when the key is missing).
on_evaluate(token_acc) ==
    /\ pc = "step_end"
    /\ metrics_files' = write_metrics_file(metrics_files, global_step, token_acc)
    /\ event' = [handler |-> "on_evaluate", step |-> global_step,
                 token_acc |-> token_acc, dir |-> NoPath]
    /\ IF token_acc = None
       THEN /\ pc' = "evaluated"
            /\ UNCHANGED <<best_token_accuracy, prev_token_accuracy,
                           stall_counter, pending_best_step, should_save,
                           should_training_stop>>
       ELSE IF IsRegression(prev_token_accuracy, token_acc)
       THEN /\ pc' = "aborted"
            /\ UNCHANGED <<best_token_accuracy, prev_token_accuracy,
                           stall_counter, pending_best_step, should_save,
                           should_training_stop>>
       ELSE IF IsImprovement(best_token_accuracy, token_acc)
       THEN /\ pc' = "evaluated"
            /\ best_token_accuracy' = token_acc
            /\ stall_counter' = 0
            /\ should_save' = TRUE
            /\ pending_best_step' = global_step
            /\ prev_token_accuracy' = token_acc
            /\ UNCHANGED should_training_stop
       ELSE /\ pc' = "evaluated"
            /\ stall_counter' = stall_counter + 1
            /\ should_training_stop' =
                   (should_training_stop
                      \/ PatienceExhausted(stall_counter + 1, patience_evals))
            /\ prev_token_accuracy' = token_acc
            /\ UNCHANGED <<best_token_accuracy, pending_best_step, should_save>>
    /\ UNCHANGED <<saved_checkpoints, keep_last, best_checkpoint_path,
                   patience_evals, latest_symlink, best_symlink,
                   checkpoint_dirs, global_step, pruned, promoted>>
    /\ UNCHANGED <<resumes, invocation, manifest_vars, feature_caches>>

\* The trainer saves checkpoint-<global_step> (materialized says whether the
\* directory is there when the callback looks) and calls on_save; the
\* callback handler clears control.should_save before the call.
\* shutil.rmtree(oldest, ignore_errors=True) leaves the directories in
\* undeletable on disk and reports nothing.
on_save_rmtree(materialized, undeletable) ==
    /\ pc \in {"step_end", "evaluated"}
    /\ LET dir == CheckpointDir(global_step)
           dirs == IF materialized THEN checkpoint_dirs \cup {dir}
                   ELSE checkpoint_dirs
           registered == register_checkpoint(saved_checkpoints, dir)
           after == prune_checkpoints(registered, best_checkpoint_path,
                                      keep_last, {})
           promote == IsPendingBest(pending_best_step, global_step)
       IN  /\ event' = [handler |-> "on_save", step |-> global_step,
                        token_acc |-> None,
                        dir |-> IF materialized THEN dir ELSE NoPath]
           /\ IF materialized
              THEN /\ saved_checkpoints' = after.saved
                   /\ latest_symlink' = dir
                   /\ checkpoint_dirs' = dirs \ (after.removed \ undeletable)
                   /\ pruned' = pruned \cup after.removed
                   /\ IF promote
                      THEN /\ best_checkpoint_path' = dir
                           /\ best_symlink' = dir
                           /\ pending_best_step' = None
                           /\ promoted' = promoted \cup {global_step}
                      ELSE UNCHANGED <<best_checkpoint_path, best_symlink,
                                       pending_best_step, promoted>>
              ELSE UNCHANGED <<saved_checkpoints, latest_symlink,
                               checkpoint_dirs, pruned, best_checkpoint_path,
                               best_symlink, pending_best_step, promoted>>
    /\ should_save' = FALSE
    /\ pc' = "saved"
    /\ UNCHANGED <<best_token_accuracy, prev_token_accuracy, stall_counter,
                   keep_last, patience_evals, metrics_files, global_step,
                   should_training_stop>>
    /\ UNCHANGED <<resumes, invocation, manifest_vars, feature_caches>>

\* on_save when every shutil.rmtree of the prune pass succeeds.
on_save(materialized) == on_save_rmtree(materialized, {})

\* on_save when an _update_symlink call raises.  Only FileNotFoundError from
\* link.unlink() is caught: another OSError from unlink leaves the link as
\* it was, and an OSError from link.symlink_to comes after the unlink
\* (unlinked: the link is gone).  With at_best the failing call is the one
\* for best, after registration and the prune pass; otherwise it is the one
\* for latest, before the prune pass.  The error leaves on_save and
\* trainer.train().
on_save_symlink_error(at_best, unlinked) ==
    /\ pc \in {"step_end", "evaluated"}
    /\ at_best => IsPendingBest(pending_best_step, global_step)
    /\ LET dir == CheckpointDir(global_step)
           registered == register_checkpoint(saved_checkpoints, dir)
           after == prune_checkpoints(registered, best_checkpoint_path,
                                      keep_last, {})
       IN  /\ event' = [handler |-> "on_save", step |-> global_step,
                        token_acc |-> None, dir |-> dir]
           /\ IF at_best
              THEN /\ saved_checkpoints' = after.saved
                   /\ latest_symlink' = dir
                   /\ checkpoint_dirs' = (checkpoint_dirs \cup {dir}) \ after.removed
                   /\ pruned' = pruned \cup after.removed
                   /\ best_checkpoint_path' = dir
                   /\ best_symlink' = IF unlinked THEN NoPath ELSE best_symlink
              ELSE /\ saved_checkpoints' = registered
                   /\ latest_symlink' = IF unlinked THEN NoPath ELSE latest_symlink
                   /\ checkpoint_dirs' = checkpoint_dirs \cup {dir}
                   /\ UNCHANGED <<pruned, best_checkpoint_path, best_symlink>>
    /\ should_save' = FALSE
    /\ pc' = "aborted"
    /\ UNCHANGED <<best_token_accuracy, prev_token_accuracy, stall_counter,
                   pending_best_step, keep_last, patience_evals, metrics_files,
                   global_step, should_training_stop, promoted>>
    /\ UNCHANGED <<resumes, invocation, manifest_vars, feature_caches>>

\* Mutant of best_fallback_needed: best is pointed at latest whenever latest
\* resolves.
best_fallback_always(best, latest, dirs) == LinkExists(latest, dirs)

\* ensure_best_symlink: not best_symlink.exists() and latest_symlink.exists()
best_fallback_needed(best, latest, dirs) ==
    ~LinkExists(best, dirs) /\ LinkExists(latest, dirs)

\* Mutant of on_log: a reported loss asks the trainer for a checkpoint.
on_log_saves(logs) ==
    /\ Running
    /\ event' = [handler |-> "on_log", step |-> global_step,
                 token_acc |-> None, dir |-> NoPath,
                 logged |-> logs \cap {"loss", "learning_rate"} # {}]
    /\ should_save' = ("loss" \in logs)
    /\ UNCHANGED <<best_token_accuracy, prev_token_accuracy, stall_counter,
                   pending_best_step, saved_checkpoints, keep_last,
                   best_checkpoint_path, patience_evals, latest_symlink,
                   best_symlink, checkpoint_dirs, metrics_files, global_step,
                   should_training_stop, pc, pruned, promoted>>
    /\ UNCHANGED <<resumes, invocation, manifest_vars, feature_caches>>

\* on_log with the keys of logs: loss and learning_rate go to wandb as
\* payload (logged; nothing is sent when neither is present); control is
\* returned as it came.
on_log(logs) ==
    /\ Running
    /\ event' = [handler |-> "on_log", step |-> global_step,
                 token_acc |-> None, dir |-> NoPath,
                 logged |-> logs \cap {"loss", "learning_rate"} # {}]
    /\ UNCHANGED <<best_token_accuracy, prev_token_accuracy, stall_counter,
                   pending_best_step, saved_checkpoints, keep_last,
                   best_checkpoint_path, patience_evals, latest_symlink,
                   best_symlink, checkpoint_dirs, metrics_files, global_step,
                   should_save, should_training_stop, pc, pruned, promoted>>
    /\ UNCHANGED <<resumes, invocation, manifest_vars, feature_caches>>

\* The finalize sequence of train_eventcode_model: one
\* final checkpoint is saved and registered when `latest` does not resolve,
\* then ensure_best_symlink.
finalize_sequence(call) ==
    /\ LET final == FinalCheckpointDir(global_step)
           manual == ~LinkExists(latest_symlink, checkpoint_dirs)
           registered == register_checkpoint(saved_checkpoints, final)
           after == prune_checkpoints(registered, best_checkpoint_path,
                                      keep_last, {})
           dirs == IF manual
                   THEN (checkpoint_dirs \cup {final}) \ after.removed
                   ELSE checkpoint_dirs
           latest == IF manual THEN final ELSE latest_symlink
       IN  /\ event' = [handler |-> call, step |-> global_step,
                        token_acc |-> None,
                        dir |-> IF manual THEN final ELSE NoPath]
           /\ saved_checkpoints' = IF manual THEN after.saved
                                   ELSE saved_checkpoints
           /\ pruned' = IF manual THEN pruned \cup after.removed ELSE pruned
           /\ checkpoint_dirs' = dirs
           /\ latest_symlink' = latest
           /\ best_symlink' =
                  IF best_fallback_needed(best_symlink, latest, dirs)
                  THEN latest
                  ELSE best_symlink
    /\ pc' = "finalized"
    /\ UNCHANGED <<best_token_accuracy, prev_token_accuracy, stall_counter,
                   pending_best_step, keep_last, best_checkpoint_path,
                   patience_evals, metrics_files, global_step, should_save,
                   should_training_stop, promoted>>
    /\ UNCHANGED <<resumes, invocation, manifest_vars, feature_caches>>

\* The end of train_eventcode_model, once trainer.train() has returned.
finalize ==
    /\ Running
    /\ ~should_save
    /\ finalize_sequence("finalize")

\* The same sequence run once more on the finalized manager.
finalize_again ==
    /\ pc = "finalized"
    /\ finalize_sequence("finalize_again")

\* The job is started again after a crash or an exit.  TrainerSpecCallback
\* is constructed anew, while the checkpoints volume keeps its directories,
\* links and metrics files; load_or_download_checkpoint hands latest to
\* trainer.train(resume_from_checkpoint=...) when it resolves, and the
\* trainer continues at that checkpoint's step (at step 0 otherwise).
resume ==
    /\ resumes < MaxResumes
    /\ best_token_accuracy' = 0
    /\ prev_token_accuracy' = None
    /\ stall_counter' = 0
    /\ pending_best_step' = None
    /\ saved_checkpoints' = <<>>
    /\ best_checkpoint_path' = NoPath
    /\ global_step' = IF LinkExists(latest_symlink, checkpoint_dirs)
                      THEN latest_symlink.step ELSE 0
    /\ should_save' = FALSE
    /\ should_training_stop' = FALSE
    /\ pc' = "idle"
    /\ event' = [handler |-> "resume", step |-> global_step',
                 token_acc |-> None, dir |-> NoPath]
    /\ resumes' = resumes + 1
    /\ UNCHANGED <<keep_last, patience_evals, latest_symlink, best_symlink,
                   checkpoint_dirs, metrics_files, pruned, promoted>>
    /\ UNCHANGED <<invocation, manifest_vars, feature_caches>>

(* on_save one filesystem operation at a time, for a reader that resolves
   latest or best between any two of them.  event.dir holds checkpoint_dir. *)

\* checkpoint_dir.exists(), and the start of _register_checkpoint: the
\* directory is appended to saved_checkpoints.
save_register(materialized) ==
    /\ pc \in {"step_end", "evaluated"}
    /\ LET dir == CheckpointDir(global_step)
       IN  /\ event' = [handler |-> "on_save", step |-> global_step,
                        token_acc |-> None,
                        dir |-> IF materialized THEN dir ELSE NoPath]
           /\ IF materialized
              THEN /\ saved_checkpoints' = register_checkpoint(saved_checkpoints, dir)
                   /\ checkpoint_dirs' = checkpoint_dirs \cup {dir}
                   /\ pc' = "save_registered"
              ELSE /\ pc' = "saved"
                   /\ UNCHANGED <<saved_checkpoints, checkpoint_dirs>>
    /\ should_save' = FALSE
    /\ UNCHANGED <<best_token_accuracy, prev_token_accuracy, stall_counter,
                   pending_best_step, keep_last, best_checkpoint_path,
                   patience_evals, latest_symlink, best_symlink, metrics_files,
                   global_step, should_training_stop, pruned, promoted>>
    /\ UNCHANGED <<resumes, invocation, manifest_vars, feature_caches>>

\* _update_symlink(resolved, latest_symlink): link.unlink() ...
save_unlink_latest ==
    /\ pc = "save_registered"
    /\ latest_symlink' = NoPath
    /\ pc' = "save_latest_unlinked"
    /\ UNCHANGED <<best_token_accuracy, prev_token_accuracy, stall_counter,
                   pending_best_step, saved_checkpoints, keep_last,
                   best_checkpoint_path, patience_evals, best_symlink,
                   checkpoint_dirs, metrics_files, global_step, should_save,
                   should_training_stop, event, pruned, promoted>>
    /\ UNCHANGED <<resumes, invocation, manifest_vars, feature_caches>>

\* ... then link.symlink_to(target).
save_link_latest ==
    /\ pc = "save_latest_unlinked"
    /\ latest_symlink' = event.dir
    /\ pc' = "save_pruning"
    /\ UNCHANGED <<best_token_accuracy, prev_token_accuracy, stall_counter,
                   pending_best_step, saved_checkpoints, keep_last,
                   best_checkpoint_path, patience_evals, best_symlink,
                   checkpoint_dirs, metrics_files, global_step, should_save,
                   should_training_stop, event, pruned, promoted>>
    /\ UNCHANGED <<resumes, invocation, manifest_vars, feature_caches>>

\* One test of the while condition of _prune_checkpoints and, when it holds,
\* one pass through the loop body.
save_prune_step ==
    /\ pc = "save_pruning"
    /\ IF Len(saved_checkpoints) > keep_last
       THEN LET oldest == Head(saved_checkpoints)
                rest == Tail(saved_checkpoints)
            IN  IF best_checkpoint_path # NoPath /\ oldest = best_checkpoint_path
                THEN /\ saved_checkpoints' = Append(rest, oldest)
                     /\ pc' = "save_pruned"
                     /\ UNCHANGED <<checkpoint_dirs, pruned>>
                ELSE /\ saved_checkpoints' = rest
                     /\ checkpoint_dirs' = checkpoint_dirs \ {oldest}
                     /\ pruned' = pruned \cup {oldest}
                     /\ pc' = "save_pruning"
       ELSE /\ pc' = "save_pruned"
            /\ UNCHANGED <<saved_checkpoints, checkpoint_dirs, pruned>>
    /\ UNCHANGED <<best_token_accuracy, prev_token_accuracy, stall_counter,
                   pending_best_step, keep_last, best_checkpoint_path,
                   patience_evals, latest_symlink, best_symlink, metrics_files,
                   global_step, should_save, should_training_stop, event,
                   promoted>>
    /\ UNCHANGED <<resumes, invocation, manifest_vars, feature_caches>>

\* The pending-best test of on_save; when it holds best_checkpoint_path is
\* set and _update_symlink(checkpoint_dir, best_symlink) unlinks best ...
save_unlink_best ==
    /\ pc = "save_pruned"
    /\ IF IsPendingBest(pending_best_step, global_step)
       THEN /\ best_checkpoint_path' = event.dir
            /\ best_symlink' = NoPath
            /\ pc' = "save_best_unlinked"
       ELSE /\ pc' = "saved"
            /\ UNCHANGED <<best_checkpoint_path, best_symlink>>
    /\ UNCHANGED <<best_token_accuracy, prev_token_accuracy, stall_counter,
                   pending_best_step, saved_checkpoints, keep_last,
                   patience_evals, latest_symlink, checkpoint_dirs,
                   metrics_files, global_step, should_save,
                   should_training_stop, event, pruned, promoted>>
    /\ UNCHANGED <<resumes, invocation, manifest_vars, feature_caches>>

\* ... then links it to checkpoint_dir, and pending_best_step is cleared.
save_link_best ==
    /\ pc = "save_best_unlinked"
    /\ best_symlink' = event.dir
    /\ pending_best_step' = None
    /\ promoted' = promoted \cup {global_step}
    /\ pc' = "saved"
    /\ UNCHANGED <<best_token_accuracy, prev_token_accuracy, stall_counter,
                   saved_checkpoints, keep_last, best_checkpoint_path,
                   patience_evals, latest_symlink, checkpoint_dirs,
                   metrics_files, global_step, should_save,
                   should_training_stop, event, pruned>>
    /\ UNCHANGED <<resumes, invocation, manifest_vars, feature_caches>>

(* -------------------------- partition assigner ------------------------ *)

\* The recording names the model draws from.
AllNames == {RecordingNames[i] : i \in 1..MaxNames}

\* Position of a name in sorted(recordings_dir.glob("*.json")).
NameIndex(name) == CHOOSE i \in 1..Len(RecordingNames) : RecordingNames[i] = name

\* hashlib.blake2s(json_path.stem.lower().encode("utf-8"), digest_size=16)
Digest(name) == DigestTable[NameIndex(name)]

\* hash_partition: "train" iff int(digest, 16) / 2**128 < train_ratio.
hash_partition(name, ratio) == IF Digest(name) < ratio THEN "train" ELSE "test"

\* sorted(...) of a set of recording names.
RECURSIVE SortedNames(_)
SortedNames(names) ==
    IF names = {} THEN <<>>
    ELSE LET first == CHOOSE n \in names :
                          \A m \in names : NameIndex(n) <= NameIndex(m)
         IN  <<first>> \o SortedNames(names \ {first})

\* list.sort(key=digest) is stable: insert an item behind the items whose
\* digest is not larger.
RECURSIVE InsertByDigest(_, _)
InsertByDigest(sorted, name) ==
    IF sorted = <<>> THEN <<name>>
    ELSE IF Digest(Head(sorted)) <= Digest(name)
         THEN <<Head(sorted)>> \o InsertByDigest(Tail(sorted), name)
         ELSE <<name>> \o sorted

\* Mutant of SortByDigest: the pending names keep their discovery order.
SortByDigest_unsorted(pending) == pending

RECURSIVE SortByDigest(_)
SortByDigest(pending) ==
    IF pending = <<>> THEN <<>>
    ELSE InsertByDigest(SortByDigest(SubSeq(pending, 1, Len(pending) - 1)),
                        pending[Len(pending)])

\* Mutant of Cutoff: round(len(pending) * train_ratio), never lowered.
Cutoff_round(n, ratio) == (n * ratio + 500) \div 1000

\* cutoff = int(len(pending) * train_ratio), lowered to len(pending) - 1
\* when it equals len(pending).
Cutoff(n, ratio) ==
    LET cutoff == (n * ratio) \div 1000
    IN  IF n > 0 /\ cutoff = n THEN n - 1 ELSE cutoff

\* "train" if idx < cutoff else "test" (idx counts from 0).
SplitAt(idx, cutoff) == IF idx < cutoff THEN "train" ELSE "test"

\* _assign_new_splits: the assignments of the pending names, a dict.
assign_new_splits(pending, ratio) ==
    LET sorted == SortByDigest(pending)
        cutoff == Cutoff(Len(sorted), ratio)
    IN  [name \in Range(sorted) |->
            LET last == CHOOSE i \in 1..Len(sorted) :
                            /\ sorted[i] = name
                            /\ \A j \in 1..Len(sorted) : sorted[j] = name => j <= i
            IN  SplitAt(last - 1, cutoff)]

\* Mutant of PendingAssignments: the membership test is inverted, the names
\* already in the split map are queued.
PendingAssignments_present(entries, split_map) ==
    SelectSeq(entries, LAMBDA name : name \in DOMAIN split_map)

\* Mutant of PendingAssignments: every discovered entry is queued again.
PendingAssignments_all(entries, split_map) == entries

\* The names build_manifests queues for assignment: the entries not in the
\* loaded split map, in discovery order.
PendingAssignments(entries, split_map) ==
    SelectSeq(entries, LAMBDA name : name \notin DOMAIN split_map)

\* dict.update
Update(map, new) ==
    [name \in DOMAIN map \cup DOMAIN new |->
        IF name \in DOMAIN new THEN new[name] ELSE map[name]]

\* Mutant of ManifestRows: every row takes the split of the single-name
\* classifier, whatever the split map holds.
ManifestRows_hashed(entries, split_map, split) ==
    LET rows == [i \in 1..Len(entries) |->
                    [recording |-> entries[i],
                     split |-> hash_partition(entries[i], train_ratio)]]
    IN  SelectSeq(rows, LAMBDA row :
            IF split = "train" THEN row.split = "train" ELSE row.split # "train")

\* The rows of one manifest file: the entries with the given split, in
\* discovery order.
ManifestRows(entries, split_map, split) ==
    LET SplitOf(name) == IF name \in DOMAIN split_map THEN split_map[name]
                         ELSE hash_partition(name, train_ratio)
        rows == [i \in 1..Len(entries) |->
                    [recording |-> entries[i], split |-> SplitOf(entries[i])]]
    IN  SelectSeq(rows, LAMBDA row :
            IF split = "train" THEN row.split = "train" ELSE row.split # "train")

\* recordings_dir.glob("*.json") yields the directory's entries in an
\* arbitrary order: every listing of the names is possible.
RECURSIVE Listings(_)
Listings(names) ==
    IF names = {} THEN {<<>>}
    ELSE UNION {{<<name>> \o listing : listing \in Listings(names \ {name})} :
                   name \in names}

RECURSIVE InsertByName(_, _)
InsertByName(sorted, name) ==
    IF sorted = <<>> THEN <<name>>
    ELSE IF NameIndex(Head(sorted)) <= NameIndex(name)
         THEN <<Head(sorted)>> \o InsertByName(Tail(sorted), name)
         ELSE <<name>> \o sorted

\* Mutant of SortedListing: the glob order is used as it comes.
SortedListing_unsorted(listing) == listing

\* sorted(recordings_dir.glob("*.json")) of one listing.
RECURSIVE SortedListing(_)
SortedListing(listing) ==
    IF listing = <<>> THEN <<>>
    ELSE InsertByName(SortedListing(Tail(listing)), Head(listing))

\* The split map one pass of build_manifests computes from a listing: the
\* loaded map updated with the assignments of the pending names.
assignment_pass(listing, split_map, ratio) ==
    Update(split_map,
           assign_new_splits(PendingAssignments(SortedListing(listing), split_map),
                             ratio))

\* sync_recordings mirrors the remote listing one file pair at a time: it
\* downloads a listed recording that is not in the directory yet ...
download_recording(name) ==
    /\ name \notin recordings
    /\ recordings' = recordings \cup {name}
    /\ UNCHANGED <<split_map_json, train_jsonl, eval_jsonl, manifest_meta,
                   train_ratio, cohort, unparseable, build_pass>>
    /\ UNCHANGED <<manager_vars, feature_caches>>

\* ... and _remove_absent unlinks a recording that is no longer listed.
remove_absent(name) ==
    /\ name \in recordings
    /\ recordings' = recordings \ {name}
    /\ unparseable' = unparseable \ {name}
    /\ UNCHANGED <<split_map_json, train_jsonl, eval_jsonl, manifest_meta,
                   train_ratio, cohort, build_pass>>
    /\ UNCHANGED <<manager_vars, feature_caches>>

\* What build_manifests computes before its first write, from the
\* recordings it finds and the split map it loaded.
manifest_outputs(names, loaded, ratio) ==
    LET entries == SortedNames(names)
        pending == PendingAssignments(entries, loaded)
        split_map == Update(loaded, assign_new_splits(pending, ratio))
        train_rows == ManifestRows(entries, split_map, "train")
        eval_rows == ManifestRows(entries, split_map, "test")
    IN  [train_rows |-> train_rows,
         eval_rows |-> eval_rows,
         split_map |-> Update(split_map,
                              [name \in Range(entries) \ DOMAIN split_map |->
                                  hash_partition(name, ratio)]),
         meta |-> [train_count |-> Len(train_rows),
                   eval_count |-> Len(eval_rows)],
         pending |-> Range(pending)]

\* No build_manifests call is in progress.
NoPass == [at |-> "idle"]

\* The last build_manifests call ended in the exception json.load raised.
RaisedPass == [at |-> "raised"]

\* build_manifests(recordings_dir, manifest_dir, train_ratio=train_ratio),
\* start to end.  json.load of an unparseable recording raises in the
\* discovery loop, before anything is written.
build_manifests ==
    /\ build_pass.at \in {"idle", "raised"}
    /\ IF recordings \cap unparseable # {}
       THEN /\ build_pass' = RaisedPass
            /\ UNCHANGED <<train_jsonl, eval_jsonl, split_map_json,
                           manifest_meta, cohort>>
       ELSE LET out == manifest_outputs(recordings, split_map_json, train_ratio)
            IN  /\ train_jsonl' = out.train_rows
                /\ eval_jsonl' = out.eval_rows
                /\ split_map_json' = out.split_map
                /\ manifest_meta' = out.meta
                /\ cohort' = out.pending
                /\ build_pass' = NoPass
    /\ UNCHANGED <<recordings, train_ratio, unparseable>>
    /\ UNCHANGED <<manager_vars, feature_caches>>

\* A recording arrives whose .json file is not valid JSON.
download_unparseable(name) ==
    /\ name \notin recordings
    /\ recordings' = recordings \cup {name}
    /\ unparseable' = unparseable \cup {name}
    /\ UNCHANGED <<split_map_json, train_jsonl, eval_jsonl, manifest_meta,
                   train_ratio, cohort, build_pass>>
    /\ UNCHANGED <<manager_vars, feature_caches>>

(* build_manifests one file operation at a time, for a reader of the files
   and for a kill between two writes. *)

\* Up to the first write: discovery, _load_split_map, the assignments and
\* the rows.
pass_compute ==
    /\ build_pass.at \in {"idle", "raised"}
    /\ recordings \cap unparseable = {}
    /\ LET out == manifest_outputs(recordings, split_map_json, train_ratio)
       IN  /\ build_pass' = [at |-> "computed", loaded |-> split_map_json,
                             out |-> out]
           /\ cohort' = out.pending
    /\ UNCHANGED <<recordings, split_map_json, train_jsonl, eval_jsonl,
                   manifest_meta, train_ratio, unparseable>>
    /\ UNCHANGED <<manager_vars, feature_caches>>

\* _write_jsonl(train_rows, train_path)
pass_write_train ==
    /\ build_pass.at = "computed"
    /\ train_jsonl' = build_pass.out.train_rows
    /\ build_pass' = [build_pass EXCEPT !.at = "train_written"]
    /\ UNCHANGED <<recordings, split_map_json, eval_jsonl, manifest_meta,
                   train_ratio, cohort, unparseable>>
    /\ UNCHANGED <<manager_vars, feature_caches>>

\* _write_jsonl(eval_rows, eval_path)
pass_write_eval ==
    /\ build_pass.at = "train_written"
    /\ eval_jsonl' = build_pass.out.eval_rows
    /\ build_pass' = [build_pass EXCEPT !.at = "eval_written"]
    /\ UNCHANGED <<recordings, split_map_json, train_jsonl, manifest_meta,
                   train_ratio, cohort, unparseable>>
    /\ UNCHANGED <<manager_vars, feature_caches>>

\* open(split_map_path, "w") truncates split_map.json; until json.dump is
\* through and the file is closed it holds a prefix of the new text.
pass_open_split_map ==
    /\ build_pass.at = "eval_written"
    /\ build_pass' = [build_pass EXCEPT !.at = "split_map_open"]
    /\ UNCHANGED <<recordings, split_map_json, train_jsonl, eval_jsonl,
                   manifest_meta, train_ratio, cohort, unparseable>>
    /\ UNCHANGED <<manager_vars, feature_caches>>

\* json.dump(split_map, handle) and the close of the file.
pass_write_split_map ==
    /\ build_pass.at = "split_map_open"
    /\ split_map_json' = build_pass.out.split_map
    /\ build_pass' = [build_pass EXCEPT !.at = "split_map_written"]
    /\ UNCHANGED <<recordings, train_jsonl, eval_jsonl, manifest_meta,
                   train_ratio, cohort, unparseable>>
    /\ UNCHANGED <<manager_vars, feature_caches>>

\* The write of manifest.meta.json and the return.
pass_write_meta ==
    /\ build_pass.at = "split_map_written"
    /\ manifest_meta' = build_pass.out.meta
    /\ build_pass' = NoPass
    /\ UNCHANGED <<recordings, split_map_json, train_jsonl, eval_jsonl,
                   train_ratio, cohort, unparseable>>
    /\ UNCHANGED <<manager_vars, feature_caches>>

\* The process is killed between two file writes.
pass_killed ==
    /\ build_pass.at \in {"computed", "train_written", "eval_written",
                          "split_map_written"}
    /\ build_pass' = NoPass
    /\ UNCHANGED <<recordings, split_map_json, train_jsonl, eval_jsonl,
                   manifest_meta, train_ratio, cohort, unparseable>>
    /\ UNCHANGED <<manager_vars, feature_caches>>

\* _load_split_map by a concurrent reader, at this instant: json.load raises
\* on the prefix a half-written split_map.json holds.
load_split_map ==
    IF build_pass.at = "split_map_open"
    THEN [ok |-> FALSE, map |-> [name \in {} |-> "test"]]
    ELSE [ok |-> TRUE, map |-> split_map_json]

(* --------------------------- feature caches --------------------------- *)

\* Path(row["audio_rel_path"]).stem of each name of RecordingNames: the file
\* name without its suffix, the case kept.
StemTable ==
    <<"Take09", "take05", "take09", "take11", "take12", "take18">>

Stem(name) == StemTable[NameIndex(name)]

\* cache_path = tokens_dir / split / f"{stem}.pt"
CachePath(row) == [split |-> row.split, stem |-> Stem(row.recording)]

\* A feature-caching pass over the rows of train.jsonl and eval.jsonl (the
\* loop of prepare_dataset after build_manifests, and _ensure_feature_caches
\* in train_eventcode_model): precompute_example_features writes the cache
\* file of a row unless it is already there.  No pass deletes a cache file.
precompute_features ==
    /\ build_pass.at \in {"idle", "raised"}
    /\ feature_caches' = feature_caches
          \cup {CachePath(row) : row \in Range(train_jsonl) \cup Range(eval_jsonl)}
    /\ UNCHANGED <<manager_vars, manifest_vars>>

\* An empty recordings directory and an empty manifest directory.
InitManifests(ratios) ==
    /\ recordings = {}
    /\ split_map_json = [name \in {} |-> "test"]
    /\ train_jsonl = <<>>
    /\ eval_jsonl = <<>>
    /\ manifest_meta = [train_count |-> 0, eval_count |-> 0]
    /\ train_ratio \in ratios
    /\ cohort = {}
    /\ unparseable = {}
    /\ build_pass = NoPass
    /\ feature_caches = {}

(* --------------------------- specifications --------------------------- *)

\* TrainerSpecCallback.__init__, for a configuration with the given
\* max_saved_checkpoints and patience_evals.
InitManager(keeps, patiences) ==
    /\ best_token_accuracy = 0
    /\ prev_token_accuracy = None
    /\ stall_counter = 0
    /\ pending_best_step = None
    /\ saved_checkpoints = <<>>
    /\ keep_last \in keeps
    /\ best_checkpoint_path = NoPath
    /\ patience_evals \in patiences
    /\ latest_symlink = NoPath
    /\ best_symlink = NoPath
    /\ checkpoint_dirs = {}
    /\ metrics_files = {}
    /\ global_step = 0
    /\ should_save = FALSE
    /\ should_training_stop = FALSE
    /\ pc = "idle"
    /\ event = [handler |-> "init", step |-> 0, token_acc |-> None,
                dir |-> NoPath]
    /\ pruned = {}
    /\ promoted = {}
    /\ resumes = 0
    /\ invocation = NotInvoked

Init ==
    /\ InitManager(0..MaxKeep, {patience_evals_default})
    /\ InitManifests({train_ratio_default})

Next ==
    \/ TrainStep
    \/ \E token_acc \in TokenAccs \cup {None} : on_evaluate(token_acc)
    \/ \E materialized \in BOOLEAN : on_save(materialized)
    \/ finalize

Spec == Init /\ [][Next]_vars

InitPatience ==
    /\ InitManager({MaxKeep}, 1..MaxPatience)
    /\ InitManifests({train_ratio_default})

SpecPatience == InitPatience /\ [][Next]_vars

InitAssigner ==
    /\ InitManager({MaxKeep}, {patience_evals_default})
    /\ InitManifests(TrainRatios)

NextManifests ==
    \/ \E name \in AllNames : download_recording(name)
    \/ \E name \in AllNames : remove_absent(name)
    \/ build_manifests

SpecManifests == InitAssigner /\ [][NextManifests]_vars

\* The manager with the finalize sequence run any number of times.
NextFinalizeAgain ==
    \/ Next
    \/ finalize_again

SpecFinalizeAgain == Init /\ [][NextFinalizeAgain]_vars

\* The manager with the trainer's log events.
InitLog ==
    /\ InitManager({MaxKeep}, {patience_evals_default})
    /\ InitManifests({train_ratio_default})

NextLog ==
    \/ Next
    \/ \E logs \in SUBSET LogKeys : on_log(logs)

SpecLog == InitLog /\ [][NextLog]_vars

\* What the rmtree calls of one prune pass can fail on: nothing, or one of
\* the tracked checkpoint directories.
RmtreeFailures == {{}} \cup {{dir} : dir \in Range(saved_checkpoints)}

\* The manager on a filesystem where one rmtree of a prune pass may fail.
NextRmtree ==
    \/ TrainStep
    \/ \E token_acc \in TokenAccs \cup {None} : on_evaluate(token_acc)
    \/ \E materialized \in BOOLEAN, undeletable \in RmtreeFailures :
           on_save_rmtree(materialized, undeletable)
    \/ finalize

SpecRmtree == Init /\ [][NextRmtree]_vars

\* The manager on a filesystem where an rmtree or a symlink update may fail.
NextFaults ==
    \/ NextRmtree
    \/ \E at_best \in BOOLEAN, unlinked \in BOOLEAN :
           on_save_symlink_error(at_best, unlinked)

SpecFaults == Init /\ [][NextFaults]_vars

\* The manager with on_save taken one filesystem operation at a time: every
\* state is an instant at which a concurrent reader can resolve the links.
NextReader ==
    \/ TrainStep
    \/ \E token_acc \in TokenAccs \cup {None} : on_evaluate(token_acc)
    \/ \E materialized \in BOOLEAN : save_register(materialized)
    \/ save_unlink_latest
    \/ save_link_latest
    \/ save_prune_step
    \/ save_unlink_best
    \/ save_link_best
    \/ finalize

SpecReader == Init /\ [][NextReader]_vars

\* The job from its entry point: the training loop and finalize run only
\* after train_eventcode_model has passed its checks.
NextStart ==
    \/ \E wandb_available, train_manifest, eval_manifest, tokenizer_base \in BOOLEAN :
          train_eventcode_model(wandb_available, train_manifest,
                                eval_manifest, tokenizer_base)
    \/ (invocation.at = "training" /\ Next)

SpecStart == Init /\ [][NextStart]_vars

\* The manager across crashes and restarts of the job.
InitResume ==
    /\ InitManager({MaxKeep}, {patience_evals_default})
    /\ InitManifests({train_ratio_default})

NextResume ==
    \/ Next
    \/ resume

SpecResume == InitResume /\ [][NextResume]_vars

\* The partition assigner with build_manifests taken one file operation at a
\* time and killed between writes.  A pass reads the recordings directory
\* only in pass_compute and sync_recordings touches no manifest file, so a
\* sync step during the writes has the effect of the same step after them:
\* sync steps are taken while no pass is in progress.  Recordings only
\* arrive here.
NextPassSteps ==
    \/ \E name \in AllNames : build_pass.at = "idle" /\ download_recording(name)
    \/ pass_compute
    \/ pass_write_train
    \/ pass_write_eval
    \/ pass_open_split_map
    \/ pass_write_split_map
    \/ pass_write_meta
    \/ pass_killed

SpecPassSteps == InitAssigner /\ [][NextPassSteps]_vars

\* Recordings arrive, build_manifests passes run write by write and may be
\* killed, and feature-caching passes run between the build passes.
NextCaches ==
    \/ NextPassSteps
    \/ precompute_features

SpecCaches == InitAssigner /\ [][NextCaches]_vars

\* The partition assigner with recordings that cannot be parsed.
NextUnparseable ==
    \/ NextManifests
    \/ \E name \in AllNames : download_unparseable(name)

SpecUnparseable == InitAssigner /\ [][NextUnparseable]_vars


(* ------------------------------ properties ---------------------------- *)

\* C1: once a recording name has an entry in split_map.json, every later
\* step (every build_manifests pass, whatever was downloaded or removed in
\* between) leaves that entry in the map with the same value.
C1_SplitMapStable ==
    [][\A name \in DOMAIN split_map_json :
          /\ name \in DOMAIN split_map_json'
          /\ split_map_json'[name] = split_map_json[name]]_vars

\* A pass assigned a new cohort while the map already held earlier entries.
C1_Witness ==
    /\ cohort # {}
    /\ DOMAIN split_map_json \ cohort # {}
    /\ \E name \in DOMAIN split_map_json \ cohort : split_map_json[name] = "train"

\* C2 (as claimed): after every prune pass at most keep_last retained
\* checkpoints are not the current best.
C2_RetentionBound ==
    Cardinality(Range(saved_checkpoints) \ {best_symlink}) <= keep_last

\* C3 (as claimed): the directory `best` points to has not been deleted by a
\* prune pass.
C3_BestNeverPruned ==
    best_symlink # NoPath => best_symlink \notin pruned

\* token_accuracy recorded in eval-step-<step>.json
RecordedAccuracy(step) ==
    LET file == CHOOSE f \in metrics_files : f.step = step
    IN  file.token_accuracy

\* C4: once on_save has set `best`, it points to the checkpoint with the
\* highest recorded token_accuracy among the checkpoints promoted so far
\* (marked pending-best and then saved), and a promotion never lowers the
\* token_accuracy of the checkpoint `best` points to.
C4_BestIsHighestPromoted ==
    /\ [](best_checkpoint_path # NoPath =>
            /\ best_symlink = best_checkpoint_path
            /\ ~best_symlink.padded
            /\ best_symlink.step \in promoted
            /\ \A step \in promoted :
                   RecordedAccuracy(step) <= RecordedAccuracy(best_symlink.step))
    /\ [][(best_symlink # NoPath /\ best_symlink' # best_symlink
             /\ event'.handler = "on_save") =>
            RecordedAccuracy(best_symlink.step) <= RecordedAccuracy(best_symlink'.step)]_vars

\* `best` was promoted twice.
C4_Witness ==
    /\ Cardinality(promoted) >= 2
    /\ best_symlink = best_checkpoint_path
    /\ best_symlink.step \in promoted

\* C5 (as claimed): after an on_save or a register_manual_checkpoint that
\* registered a directory, `latest` points to that directory and it exists.
C5_LatestResolves ==
    (event.handler \in {"on_save", "finalize"} /\ event.dir # NoPath) =>
        /\ latest_symlink = event.dir
        /\ event.dir \in checkpoint_dirs

\* The token_accuracy of the latest earlier eval that reported one (None when
\* no eval has), read from the per-step metrics files.
LastReportedAccuracy ==
    LET reported == {f \in metrics_files :
                        f.token_accuracy # None /\ f.step < global_step}
        last == CHOOSE f \in reported : \A g \in reported : g.step <= f.step
    IN  IF reported = {} THEN None ELSE last.token_accuracy

\* C6: on_evaluate raises exactly when an earlier eval reported a
\* token_accuracy and the new one is lower than the latest of them by more
\* than 0.05; an eval that raises leaves control.should_save unset.
C6_AbortExactlyOnRegression ==
    [][(pc = "step_end" /\ event'.handler = "on_evaluate") =>
          /\ (pc' = "aborted") <=>
                 /\ event'.token_acc # None
                 /\ LastReportedAccuracy # None
                 /\ LastReportedAccuracy - event'.token_acc > 50
          /\ (pc' = "aborted") => ~should_save']_vars

\* An eval aborted on a drop of 0.051.
C6_Witness ==
    /\ pc = "aborted"
    /\ event.token_acc = 5
    /\ prev_token_accuracy = 56

\* C7: the stop signal is up exactly when the stall counter has reached
\* patience_evals, which it never exceeds; an eval that improves on the
\* best-ever value by at least 0.005 resets the counter and any other
\* (non-aborting) eval with a token_accuracy raises it by one.
C7_PatienceStop ==
    /\ [](/\ should_training_stop <=> stall_counter >= patience_evals
          /\ stall_counter <= patience_evals)
    /\ [][(pc = "step_end" /\ event'.handler = "on_evaluate"
             /\ event'.token_acc # None /\ pc' # "aborted") =>
            IF event'.token_acc - best_token_accuracy >= 5
            THEN stall_counter' = 0
            ELSE stall_counter' = stall_counter + 1]_vars

\* Patience 3: stopped on the third stalled eval after an improving one.
C7_Witness ==
    /\ patience_evals = 3
    /\ should_training_stop
    /\ stall_counter = 3
    /\ best_token_accuracy > 0

\* C8: a non-aborting eval whose token_accuracy exceeds the best-ever value
\* by at least 0.005 becomes the best-ever value, marks its step
\* pending-best, zeroes the stall counter and requests a save; a smaller
\* improvement changes none of these and adds one to the stall counter.
C8_ImprovementEffects ==
    [][(pc = "step_end" /\ event'.handler = "on_evaluate"
          /\ event'.token_acc # None /\ pc' # "aborted") =>
         IF event'.token_acc - best_token_accuracy >= 5
         THEN /\ best_token_accuracy' = event'.token_acc
              /\ pending_best_step' = global_step
              /\ stall_counter' = 0
              /\ should_save'
         ELSE /\ best_token_accuracy' = best_token_accuracy
              /\ pending_best_step' = pending_best_step
              /\ should_save' = should_save
              /\ stall_counter' = stall_counter + 1]_vars

\* An eval that improved on the best-ever value by exactly 0.005.
C8_Witness ==
    /\ event.handler = "on_evaluate"
    /\ event.token_acc = 5
    /\ best_token_accuracy = 5
    /\ pending_best_step = global_step
    /\ should_save
    /\ stall_counter = 0

\* C9: on_save of an existing checkpoint directory registers it (it is in
\* the deque, or the prune pass of this very call removed it), points
\* `latest` at it, and points `best` at it and clears the pending marker if
\* and only if pending_best_step is this step; otherwise `best` and the
\* marker stay as they were.
C9_OnSaveEffects ==
    [][(event'.handler = "on_save" /\ event'.dir # NoPath
          /\ pc \in {"step_end", "evaluated"}) =>
         /\ event'.dir = CheckpointDir(global_step)
         /\ event'.dir \in Range(saved_checkpoints') \cup (pruned' \ pruned)
         /\ latest_symlink' = event'.dir
         /\ best_symlink' = event'.dir <=> pending_best_step = global_step
         /\ IF pending_best_step = global_step
            THEN pending_best_step' = None
            ELSE /\ pending_best_step' = pending_best_step
                 /\ best_symlink' = best_symlink
                 /\ best_checkpoint_path' = best_checkpoint_path]_vars

\* A save that promoted its step, and a save at a step other than a still
\* pending one.
C9_Witness ==
    /\ event.handler = "on_save"
    /\ event.dir # NoPath
    /\ pending_best_step # None
    /\ pending_best_step # global_step
    /\ best_symlink # NoPath
    /\ latest_symlink # best_symlink

\* C10: of the N > 0 names a pass assigned, the share labelled "train" is
\* within 1/N of train_ratio, and at least one is labelled "test".
C10_CohortRatio ==
    cohort # {} =>
        LET n == Cardinality(cohort)
            trains == Cardinality({name \in cohort : split_map_json[name] = "train"})
            diff == trains * 1000 - n * train_ratio
        IN  /\ cohort \subseteq DOMAIN split_map_json
            /\ diff <= 1000
            /\ 0 - diff <= 1000
            /\ \E name \in cohort : split_map_json[name] = "test"

\* A cohort of at least three names, some of them labelled "train".
C10_Witness ==
    /\ Cardinality(cohort) >= 3
    /\ \E name \in cohort : split_map_json[name] = "train"

\* C11 (as claimed): after every assignment pass the number of "train"
\* names among all M names of the split map is within one name of
\* M * train_ratio.
C11_OverallRatio ==
    LET m == Cardinality(DOMAIN split_map_json)
        trains == Cardinality({name \in DOMAIN split_map_json :
                                  split_map_json[name] = "train"})
        diff == trains * 1000 - m * train_ratio
    IN  /\ diff <= 1000
        /\ 0 - diff <= 1000

\* C12: a pass that changes the split map writes the map that the
\* recordings and the loaded map determine, whatever the order in which
\* the directory lists the recordings.
C12_OrderIndependent ==
    [][split_map_json' # split_map_json =>
          \A listing \in Listings(recordings) :
              split_map_json' = assignment_pass(listing, split_map_json, train_ratio)]_vars

\* Two names with the same digest were assigned in one cohort and landed on
\* different sides of the cutoff: the tie was broken by the sorted order.
C12_Witness ==
    /\ {"Take09.json", "take09.json"} \subseteq cohort
    /\ split_map_json["Take09.json"] = "train"
    /\ split_map_json["take09.json"] = "test"

\* C13 (as claimed): when a pass assigns one new name into an empty split
\* map, the name gets the split hash_partition returns for it.
C13_SingleNameAgrees ==
    \A name \in cohort :
        (cohort = {name} /\ DOMAIN split_map_json = {name}) =>
            split_map_json[name] = hash_partition(name, train_ratio)

\* C14: in a cohort of N new names exactly floor(N * train_ratio) names are
\* labelled "train" (N - 1 when that would be N), no "train" name of the
\* cohort has a larger digest than a "test" name of the cohort, and every
\* other name of the cohort is labelled "test".
C14_CohortCutoff ==
    cohort # {} =>
        LET n == Cardinality(cohort)
            floor == (n * train_ratio) \div 1000
            trains == {name \in cohort : split_map_json[name] = "train"}
            tests == {name \in cohort : split_map_json[name] = "test"}
        IN  /\ Cardinality(trains) = IF floor = n THEN n - 1 ELSE floor
            /\ trains \cup tests = cohort
            /\ \A tr \in trains : \A te \in tests : Digest(tr) <= Digest(te)

\* Four new names at ratio 0.9: three "train" and one "test".
C14_Witness ==
    /\ Cardinality(cohort) = 4
    /\ train_ratio = 900
    /\ Cardinality({name \in cohort : split_map_json[name] = "train"}) = 3
    /\ Cardinality({name \in cohort : split_map_json[name] = "test"}) = 1

\* C15 (as claimed): once finalize has run in a run that promoted no
\* checkpoint to best, best resolves to the directory latest resolves to.
C15_BestFallsBackToLatest ==
    (pc = "finalized" /\ promoted = {}) =>
        /\ LinkExists(latest_symlink, checkpoint_dirs)
        /\ LinkExists(best_symlink, checkpoint_dirs)
        /\ best_symlink = latest_symlink

\* C16 (as claimed): once the finalize sequence has run, latest and best
\* both resolve to existing checkpoint directories.
C16_BothResolveAfterFinalize ==
    pc = "finalized" =>
        /\ LinkExists(latest_symlink, checkpoint_dirs)
        /\ LinkExists(best_symlink, checkpoint_dirs)

\* C17: running the finalize sequence on a finalized manager changes neither
\* latest, best, the retained checkpoints nor any manager field, and no run
\* of the sequence re-points a best link that is already set.
C17_FinalizeIdempotent ==
    [][/\ pc = "finalized" =>
              UNCHANGED <<latest_symlink, best_symlink, saved_checkpoints,
                          checkpoint_dirs, best_token_accuracy,
                          prev_token_accuracy, stall_counter, pending_best_step,
                          best_checkpoint_path, keep_last, patience_evals,
                          metrics_files, global_step, should_save,
                          should_training_stop, pc>>
       /\ (event'.handler \in {"finalize", "finalize_again"}
              /\ best_symlink # NoPath) =>
              best_symlink' = best_symlink]_vars

\* The sequence ran a second time on a manager whose best is a promoted
\* checkpoint other than latest.
C17_Witness ==
    /\ event.handler = "finalize_again"
    /\ LinkExists(best_symlink, checkpoint_dirs)
    /\ LinkExists(latest_symlink, checkpoint_dirs)
    /\ best_symlink # latest_symlink

\* C18: an on_log call leaves the best-ever and previous accuracy, the stall
\* counter, the pending best step, the retained checkpoints, latest and best
\* as they were, and sets neither should_save nor should_training_stop.
C18_OnLogFrame ==
    [][event'.handler = "on_log" =>
          UNCHANGED <<best_token_accuracy, prev_token_accuracy, stall_counter,
                      pending_best_step, saved_checkpoints, checkpoint_dirs,
                      best_checkpoint_path, latest_symlink, best_symlink,
                      should_save, should_training_stop, pc>>]_vars

\* on_log sent a payload to wandb in the middle of a run: evals have
\* stalled, checkpoints are retained and best is set.
C18_Witness ==
    /\ event.handler = "on_log"
    /\ event.logged
    /\ stall_counter > 0
    /\ saved_checkpoints # <<>>
    /\ best_symlink # NoPath

\* _register_checkpoint runs once per checkpoint, in step order; the final
\* checkpoint of the finalize sequence comes last.
RegisteredBefore(a, b) ==
    \/ a.step < b.step
    \/ a.step = b.step /\ ~a.padded /\ b.padded

\* C19 (as claimed): when a prune pass deletes a checkpoint, no checkpoint
\* registered before it is still retained, except the current best.
C19_PruneDeletesOldest ==
    [][\A deleted \in pruned' \ pruned :
          \A kept \in Range(saved_checkpoints') :
              RegisteredBefore(kept, deleted) => kept = best_checkpoint_path]_vars

\* C20 (as claimed): a checkpoint a prune pass tried to delete and that is
\* still on disk is still tracked by the manager.
C20_FailedDeleteStaysTracked ==
    \A dir \in pruned \cap checkpoint_dirs : dir \in Range(saved_checkpoints)

\* C21 (as claimed): the run is aborted only by on_evaluate finding a
\* regression; a failing symlink update, a checkpoint directory missing at
\* on_save, a failed delete and an eval without token_accuracy abort nothing.
C21_OnlyRegressionAborts ==
    [][(pc' = "aborted" /\ pc # "aborted") =>
          /\ event'.handler = "on_evaluate"
          /\ event'.token_acc # None
          /\ IsRegression(prev_token_accuracy, event'.token_acc)]_vars

\* C22 (as claimed): a reader that resolves latest or best at any instant,
\* between the operations of a pointer update and of a prune pass included,
\* gets no directory that has been deleted.
C22_ReaderNeverDangling ==
    \A link \in {latest_symlink, best_symlink} :
        link # NoPath => (link \in checkpoint_dirs /\ link \notin pruned)

\* C23: at every instant of a build_manifests pass, a reader whose load of
\* split_map.json succeeds finds every name the map held before the pass,
\* with the split it had before the pass.
C23_ReaderSeesStableEntries ==
    build_pass.at \notin {"idle", "raised"} =>
        LET view == load_split_map
        IN  view.ok =>
                \A name \in DOMAIN build_pass.loaded :
                    /\ name \in DOMAIN view.map
                    /\ view.map[name] = build_pass.loaded[name]

\* A pass that found earlier entries and new names has written the new map
\* and has not returned yet.
C23_Witness ==
    /\ build_pass.at = "split_map_written"
    /\ DOMAIN build_pass.loaded # {}
    /\ cohort # {}
    /\ split_map_json # build_pass.loaded
    /\ load_split_map.ok

\* The split each manifest row publishes for its recording.
PublishedRows(train_file, eval_file) == Range(train_file) \cup Range(eval_file)

\* C24 (as claimed): with passes killed between writes, a split published
\* for a name in train.jsonl or eval.jsonl is the split every later manifest
\* publishes for that name, and the split the name has in split_map.json
\* once a pass has completed.
C24_PublishedSplitsSurviveKill ==
    [][/\ \A old \in PublishedRows(train_jsonl, eval_jsonl) :
              \A new \in PublishedRows(train_jsonl', eval_jsonl') :
                  new.recording = old.recording => new.split = old.split
       /\ (build_pass.at = "split_map_written" /\ build_pass'.at = "idle"
              /\ manifest_meta' = build_pass.out.meta) =>
              \A row \in PublishedRows(train_jsonl', eval_jsonl') :
                  /\ row.recording \in DOMAIN split_map_json'
                  /\ split_map_json'[row.recording] = row.split]_vars

\* C26 (as claimed): no build_manifests pass ends in an exception, whatever
\* recordings it finds; an unparseable recording is left out of the
\* manifests and of the split map.
C26_UnparseableSkipped ==
    /\ build_pass.at # "raised"
    /\ \A name \in unparseable :
           /\ name \notin DOMAIN split_map_json
           /\ \A row \in PublishedRows(train_jsonl, eval_jsonl) :
                  row.recording # name

\* C27: a build_manifests pass over the recordings and the split map a pass
\* has just left writes the same split map and the same train and eval rows,
\* in the same order.
C27_BuildTwiceSame ==
    LET first == manifest_outputs(recordings, split_map_json, train_ratio)
        second == manifest_outputs(recordings, first.split_map, train_ratio)
    IN  /\ second.split_map = first.split_map
        /\ second.train_rows = first.train_rows
        /\ second.eval_rows = first.eval_rows

\* A pass found nothing to assign and wrote rows for every recording: the
\* recordings and the split map were those an earlier pass had left.
C27_Witness ==
    /\ cohort = {}
    /\ Cardinality(recordings) >= 2
    /\ Len(train_jsonl) > 0
    /\ Len(train_jsonl) + Len(eval_jsonl) = Cardinality(recordings)
    /\ split_map_json = manifest_outputs(recordings, split_map_json, train_ratio).split_map

\* Some eval-step-<step>.json records a token_accuracy for the step.
HasRecordedAccuracy(step) ==
    \E f \in metrics_files : f.step = step /\ f.token_accuracy # None

\* C25 (as claimed): across restarts, when best is re-pointed from one
\* checkpoint to another, the token_accuracy recorded for the new one is not
\* lower than the one recorded for the old one.
C25_BestNotLoweredAcrossResume ==
    [][(/\ best_symlink # NoPath
        /\ best_symlink' # NoPath
        /\ best_symlink' # best_symlink
        /\ HasRecordedAccuracy(best_symlink.step)
        /\ HasRecordedAccuracy(best_symlink'.step)) =>
          RecordedAccuracy(best_symlink'.step) >= RecordedAccuracy(best_symlink.step)]_vars


\* After on_evaluate has requested the stop or raised the regression error.
Terminated == should_training_stop \/ pc = "aborted"

\* C28: once on_evaluate has signalled the patience stop or the regression
\* abort, no later on_evaluate or on_save event marks a new pending best,
\* requests a save, resets the stall counter, or re-points best.
C28_TerminalStates ==
    [][(Terminated /\ event'.handler \in {"on_evaluate", "on_save"}) =>
          /\ Terminated'
          /\ pending_best_step' = pending_best_step
          /\ stall_counter' = stall_counter
          /\ (should_save' => should_save)
          /\ best_symlink' = best_symlink
          /\ best_checkpoint_path' = best_checkpoint_path]_vars

\* A checkpoint is saved at the step of the patience stop while an earlier
\* pending best, whose own save left no directory, was never promoted.
C28_Witness ==
    /\ should_training_stop
    /\ event.handler = "on_save"
    /\ event.dir # NoPath
    /\ pending_best_step # None
    /\ pending_best_step < global_step


\* Nothing of a training run has happened on the checkpoints volume.
Untouched ==
    /\ global_step = 0
    /\ saved_checkpoints = <<>>
    /\ checkpoint_dirs = {}
    /\ pruned = {}
    /\ promoted = {}
    /\ latest_symlink = NoPath
    /\ best_symlink = NoPath
    /\ metrics_files = {}

MissingArtifact ==
    /\ invocation.at # "not_invoked"
    /\ \/ ~invocation.train_manifest
       \/ ~invocation.eval_manifest
       \/ ~invocation.tokenizer_base

\* C29 as stated: called while train.jsonl, eval.jsonl or the tokenizer
\* directory is missing, train_eventcode_model fails with a named
\* FileNotFoundError before any training step, registration, deletion or
\* pointer update.
C29_FileNotFoundFirst ==
    MissingArtifact =>
        /\ invocation.at = "raised"
        /\ invocation.error \in {ManifestsMissing, TokenizerMissing}
        /\ Untouched

\* C29, amended: called while train.jsonl, eval.jsonl or the tokenizer
\* directory is missing, train_eventcode_model fails before any training
\* step, registration, deletion or pointer update; the error is the named
\* FileNotFoundError when wandb is available, and the RuntimeError of
\* ensure_wandb_available otherwise.
C29_MissingArtifactFailsFirst ==
    MissingArtifact =>
        /\ invocation.at = "raised"
        /\ invocation.error =
              IF ~invocation.wandb_available THEN WandbError
              ELSE IF ~invocation.train_manifest \/ ~invocation.eval_manifest
                   THEN ManifestsMissing
              ELSE TokenizerMissing
        /\ Untouched

\* Both manifests are there and the tokenizer directory is not.
C29_Witness ==
    /\ invocation.at = "raised"
    /\ invocation.wandb_available
    /\ invocation.train_manifest
    /\ invocation.eval_manifest
    /\ ~invocation.tokenizer_base
    /\ invocation.error = TokenizerMissing


\* C30: in an on_save event for the pending-best step, the prune pass runs
\* after latest and best have been updated: it protects the newly promoted
\* checkpoint, and no longer the previous best.
C30_PruneAfterBestUpdate ==
    [][(/\ event'.handler = "on_save"
        /\ event'.dir # NoPath
        /\ IsPendingBest(pending_best_step, global_step)) =>
          LET dir == CheckpointDir(global_step)
              after == prune_checkpoints(
                           register_checkpoint(saved_checkpoints, dir),
                           dir, keep_last, {})
          IN  /\ saved_checkpoints' = after.saved
              /\ pruned' = pruned \cup after.removed]_vars


\* C31: for keep_last >= 1, at most keep_last + 1 checkpoints are retained
\* after every prune pass (the protected best is the one entry beyond
\* keep_last).
C31_WindowAtMostOneOver ==
    keep_last >= 1 => Len(saved_checkpoints) <= keep_last + 1


\* C32: an on_evaluate that aborts on regression (the new token_accuracy is
\* more than 0.05 below the last reported one) changes none of the best-ever
\* value, the previous-eval value, the stall counter, the pending-best
\* marker, latest, best and the retained checkpoints, and requests neither a
\* save nor a stop; it has written the metrics record of its step only.
C32_AbortLeavesStateAlone ==
    [][(/\ pc = "step_end"
        /\ event'.handler = "on_evaluate"
        /\ event'.token_acc # None
        /\ LastReportedAccuracy # None
        /\ LastReportedAccuracy - event'.token_acc > REGRESSION_DROP) =>
          /\ pc' = "aborted"
          /\ UNCHANGED <<best_token_accuracy, prev_token_accuracy,
                         stall_counter, pending_best_step, latest_symlink,
                         best_symlink, best_checkpoint_path,
                         saved_checkpoints, checkpoint_dirs, pruned,
                         promoted, should_save, should_training_stop>>
          /\ pending_best_step' # global_step
          /\ best_symlink' # CheckpointDir(global_step)
          /\ metrics_files' =
                 {f \in metrics_files : f.step # global_step}
                   \cup {[step |-> global_step,
                          token_accuracy |-> event'.token_acc]}]_vars

\* An abort after a promoted best (0.060) and one stalled eval (0.056).
C32_Witness ==
    /\ pc = "aborted"
    /\ event.handler = "on_evaluate"
    /\ event.token_acc = 5
    /\ best_token_accuracy = 60
    /\ stall_counter = 1
    /\ best_symlink # NoPath
    /\ [step |-> global_step, token_accuracy |-> 5] \in metrics_files


\* C33: on_evaluate changes none of latest, best and the retained
\* checkpoints; best is re-pointed only by an on_save that found the
\* checkpoint directory of the pending-best step, or by the fallback of
\* ensure_best_symlink in the finalize sequence (best does not resolve, and
\* it is pointed at latest).
C33_WhoRepointsBest ==
    [][/\ (event'.handler = "on_evaluate" /\ pc = "step_end") =>
              UNCHANGED <<latest_symlink, best_symlink, best_checkpoint_path,
                          saved_checkpoints, checkpoint_dirs, pruned>>
       /\ (best_symlink' # best_symlink) =>
              \/ /\ event'.handler = "on_save"
                 /\ pending_best_step # None
                 /\ pending_best_step = global_step
                 /\ event'.dir = CheckpointDir(pending_best_step)
                 /\ best_symlink' = event'.dir
              \/ /\ event'.handler = "finalize"
                 /\ ~LinkExists(best_symlink, checkpoint_dirs')
                 /\ LinkExists(latest_symlink', checkpoint_dirs')
                 /\ best_symlink' = latest_symlink']_vars

\* An improving eval after a promoted best: a new step is pending while
\* best still points to the earlier checkpoint.
C33_Witness ==
    /\ event.handler = "on_evaluate"
    /\ pc = "evaluated"
    /\ pending_best_step = global_step
    /\ best_symlink # NoPath
    /\ best_symlink.step < global_step
    /\ should_save


\* C34: an on_evaluate whose metrics have no token_accuracy leaves the
\* best-ever value, the previous-eval value, the stall counter and the
\* pending-best marker as they were, and signals neither a stop nor a save
\* nor an abort.
C34_MissingMetricIgnored ==
    [][(/\ pc = "step_end"
        /\ event'.handler = "on_evaluate"
        /\ event'.token_acc = None) =>
          /\ UNCHANGED <<best_token_accuracy, prev_token_accuracy,
                         stall_counter, pending_best_step, should_save,
                         should_training_stop>>
          /\ pc' = "evaluated"]_vars

\* An eval without token_accuracy where a counted, stalled eval would have
\* exhausted the patience.
C34_Witness ==
    /\ event.handler = "on_evaluate"
    /\ event.token_acc = None
    /\ prev_token_accuracy # None
    /\ stall_counter + 1 = patience_evals
    /\ ~should_training_stop


\* The recordings the two manifest files have rows for.
PublishedRowNames(train_file, eval_file) ==
    {row.recording : row \in Range(train_file) \cup Range(eval_file)}


\* How many rows of a manifest file are for the recording.
RowsFor(file, name) == Cardinality({i \in 1..Len(file) : file[i].recording = name})

\* C35: after every completed build_manifests pass each discovered recording
\* is in exactly one of train.jsonl and eval.jsonl, the one its value in
\* split_map.json names, no other recording is in them, and
\* manifest.meta.json holds the row counts of the two files.
C35_ManifestsMatchSplitMap ==
    [][(/\ build_pass.at \in {"idle", "raised"}
        /\ build_pass' = NoPass
        /\ recordings' = recordings) =>
          /\ \A name \in recordings' :
                /\ name \in DOMAIN split_map_json'
                /\ RowsFor(train_jsonl', name) + RowsFor(eval_jsonl', name) = 1
                /\ RowsFor(train_jsonl', name) = 1
                      <=> split_map_json'[name] = "train"
          /\ PublishedRowNames(train_jsonl', eval_jsonl') = recordings'
          /\ \A i \in 1..Len(train_jsonl') : train_jsonl'[i].split = "train"
          /\ \A i \in 1..Len(eval_jsonl') : eval_jsonl'[i].split = "test"
          /\ manifest_meta'.train_count = Len(train_jsonl')
          /\ manifest_meta'.eval_count = Len(eval_jsonl')]_vars

\* A pass has written both files for the recordings now present, and the
\* split map holds a name that is no longer there.
C35_Witness ==
    /\ build_pass = NoPass
    /\ train_jsonl # <<>>
    /\ eval_jsonl # <<>>
    /\ PublishedRowNames(train_jsonl, eval_jsonl) = recordings
    /\ DOMAIN split_map_json \ recordings # {}


\* C36: within a run the best-ever token_accuracy never decreases and the
\* previous-eval value stays below best-ever + 0.005, so that no
\* token_accuracy is at once more than 0.05 below the previous value and at
\* least 0.005 above the best-ever value.
C36_BestMonotonePrevBounded ==
    [][/\ best_token_accuracy' >= best_token_accuracy
       /\ prev_token_accuracy' # None =>
              prev_token_accuracy' < best_token_accuracy' + MIN_IMPROVEMENT
       /\ \A token_acc \in TokenAccs :
              ~(/\ prev_token_accuracy' # None
                /\ prev_token_accuracy' - token_acc > REGRESSION_DROP
                /\ token_acc - best_token_accuracy' >= MIN_IMPROVEMENT)]_vars

\* The previous eval was above the best-ever value, by less than 0.005.
C36_Witness ==
    /\ event.handler = "on_evaluate"
    /\ best_token_accuracy > 0
    /\ prev_token_accuracy > best_token_accuracy
    /\ stall_counter > 0


\* C37: in a resumed run, after every prune pass at most keep_last of the
\* checkpoint directories on disk are not the current best.
C37_RetentionAcrossResume ==
    (resumes > 0 /\ event.handler = "on_save" /\ event.dir # NoPath) =>
        Cardinality(checkpoint_dirs \ {best_symlink}) <= keep_last


\* C38: after any sequence of recording syncs, build_manifests passes and
\* feature-caching passes, no recording has cached features under both the
\* train and the test cache directory.
C38_NoRecordingInBothCaches ==
    \A stem \in Range(StemTable) :
        ~(/\ [split |-> "train", stem |-> stem] \in feature_caches
          /\ [split |-> "test", stem |-> stem] \in feature_caches)


\* The recording has a row in the manifest files.
HasRow(train_file, eval_file, name) ==
    RowsFor(train_file, name) + RowsFor(eval_file, name) > 0

\* C39: no step removes a name from split_map.json or changes its value; a
\* completed build_manifests pass leaves no row for a name of the map whose
\* recording is gone, and gives a recording that is back (in the map, and
\* without a row since the passes that missed it) a row with the split the
\* map has held for it all along.
C39_AbsentNameKeepsSplit ==
    [][/\ \A name \in DOMAIN split_map_json :
             /\ name \in DOMAIN split_map_json'
             /\ split_map_json'[name] = split_map_json[name]
       /\ (/\ build_pass.at \in {"idle", "raised"}
           /\ build_pass' = NoPass
           /\ recordings' = recordings) =>
             \A name \in DOMAIN split_map_json :
                 IF name \in recordings
                 THEN \E row \in PublishedRows(train_jsonl', eval_jsonl') :
                         /\ row.recording = name
                         /\ row.split = split_map_json[name]
                 ELSE ~HasRow(train_jsonl', eval_jsonl', name)]_vars

\* A recording of the split map is gone and the manifests, regenerated since,
\* have rows for the other recordings only.
C39_Witness ==
    /\ \E name \in DOMAIN split_map_json :
          /\ name \notin recordings
          /\ ~HasRow(train_jsonl, eval_jsonl, name)
    /\ recordings # {}
    /\ PublishedRowNames(train_jsonl, eval_jsonl) = recordings
    /\ cohort = {}


\* C40: in a build_manifests pass every discovered recording is in the
\* loaded split map or in the cohort that is assigned, so the single-name
\* classifier hash_partition is not reached, and every split written to the
\* manifests is the one of the loaded map or of the cohort slice.
C40_FallbackNeverReached ==
    [][(/\ build_pass.at \in {"idle", "raised"}
        /\ build_pass' = NoPass
        /\ recordings' = recordings) =>
          LET entries == SortedNames(recordings)
              new == SelectSeq(entries,
                               LAMBDA name : name \notin DOMAIN split_map_json)
              slice == assign_new_splits(new, train_ratio)
          IN  /\ Range(entries) \subseteq DOMAIN split_map_json \cup DOMAIN slice
              /\ Range(new) = cohort'
              /\ \A row \in PublishedRows(train_jsonl', eval_jsonl') :
                    row.split = IF row.recording \in DOMAIN split_map_json
                                THEN split_map_json[row.recording]
                                ELSE slice[row.recording]
              /\ \A name \in recordings :
                    split_map_json'[name] =
                        IF name \in DOMAIN split_map_json
                        THEN split_map_json[name]
                        ELSE slice[name]]_vars

\* A pass has written a row whose split is not the one hash_partition gives
\* the name.
C40_Witness ==
    /\ cohort # {}
    /\ \E row \in PublishedRows(train_jsonl, eval_jsonl) :
          /\ row.recording \in cohort
          /\ row.recording \in DOMAIN split_map_json
          /\ row.split = split_map_json[row.recording]
          /\ row.split # hash_partition(row.recording, train_ratio)

====
